---- MODULE Spec2Model ----
(***************************************************************************)
(* Model of assemblyline_v4_service/updater/helper.py: the two fetchers    *)
(* url_download and git_clone_repo, the selector filter_downloads, and the *)
(* process-wide state they share (FORCE_UPDATE, os.environ['https_proxy'], *)
(* the output directory on disk).  A single caller invokes the fetchers    *)
(* one after the other for one source name and one output directory; each  *)
(* fetcher is split at its I/O boundaries.  A field of the source          *)
(* descriptor is resolved in the step that first uses its value.           *)
(***************************************************************************)
EXTENDS Integers, Sequences, FiniteSets, TLC

\* ---------------------------------------------------------------- bounds
MaxCalls == 2        \* fetcher invocations in one process
MaxTime == 2         \* epoch timestamps range over 0..MaxTime
MaxCommits == 2      \* commits returned by repo.iter_commits()

\* ------------------------------------------------------- program constants
NOT_MODIFIED == 304  \* requests.codes['not_modified']
OK_LIMIT == 400      \* requests.Response.ok: status below 400

\* ------------------------------------------------------------ value domains
Times == 0..MaxTime
TZOffsets == {-1, 0, 1}          \* local zone offset from UTC read by time.mktime
Statuses == {200, NOT_MODIFIED, 404}

NoneVal == [type |-> "None", t |-> 0]
\* previous_update: None, an epoch int, or an ISO-8601 string naming an epoch
PreviousUpdates == {NoneVal} \cup [type : {"int", "str"}, t : Times]

NoProxy == "None"
Proxies == {NoProxy, "http://proxy"}
Unset == "unset"                 \* os.environ has no https_proxy key

NoKey == "None"
Keys == {NoKey, "PRIVATE KEY"}

Sep == "/"
\* os.path.join(output_dir, name): the clone / extraction directory
WorkDir == <<"out", Sep, "src">>

\* Patterns: prefix = a literal anchored by re.match ('' behaves as '.*'),
\* suffix = '.*<lit>$' ('.*/$' matches every directory path and no file).
\* kind "None" is a missing pattern.
NoPattern == [kind |-> "None", lit |-> <<>>]
MatchAll == [kind |-> "prefix", lit |-> <<>>]
Regexes == { MatchAll,
             [kind |-> "prefix", lit |-> WorkDir \o <<Sep, "sub", Sep>>],
             [kind |-> "prefix", lit |-> <<"b">>],
             [kind |-> "suffix", lit |-> <<"c">>],
             [kind |-> "suffix", lit |-> <<Sep>>] }
Patterns == {NoPattern} \cup Regexes

\* os.path.basename(urlparse(uri).path), as character sequences
FileNames == { <<"a", ".", "z", "i", "p">>,
               <<"a", ".", "t", "a", "r", ".", "g", "z">>,
               <<"a", ".", "t", "x", "t">>,
               <<"g", "z", "i", "p">> }

\* file paths (relative to the root of an archive or repository)
FilePaths == { <<"b">>, <<"sub", "b">>, <<"sub", "c">>, <<"sub", "deep", "c">> }
\* contents of a downloaded archive or of a cloned repository
Trees == { {<<"b">>}, {<<"sub", "b">>, <<"sub", "c">>}, FilePaths }

CommitLists == UNION { [1..n -> Times] : n \in 1..MaxCommits }

VARIABLES
    FORCE_UPDATE,     \* module global, read once from the environment
    https_proxy,      \* os.environ['https_proxy'] or Unset
    pc, calls, fn,
    previous_update, proxy, pattern, default_pattern, key, file_name,
    last_modified, status, getIssued, commits,
    unpackCalled, filtered, outcome, result,
    out_exists, downloads, work,   \* the output directory on disk
    tmpfile,          \* the NamedTemporaryFile of git_clone_repo
    fs0               \* the output directory as it was when the call began

env == <<FORCE_UPDATE>>
disk == <<out_exists, downloads, work>>
vars == <<FORCE_UPDATE, https_proxy, pc, calls, fn, previous_update, proxy,
          pattern, default_pattern, key, file_name, last_modified, status,
          getIssued, commits, unpackCalled, filtered, outcome, result,
          out_exists, downloads, work, tmpfile, fs0>>

\* ------------------------------------------------------------ pure helpers
\* Python truthiness of previous_update (None, 0 and '' are false)
Truthy(v) == v.type = "str" \/ (v.type = "int" /\ v.t # 0)

\* iso_to_epoch applied when previous_update is a str
IsoToEpoch(v) == IF v.type = "str" THEN [type |-> "int", t |-> v.t] ELSE v

\* time.mktime(time.strptime(header, ...)): the broken-down GMT time is read
\* as local time
Mktime(hdr, zone) == hdr - zone

IsPrefix(s, x) == Len(s) <= Len(x) /\ SubSeq(x, 1, Len(s)) = s
EndsWith(x, s) == Len(s) <= Len(x) /\ SubSeq(x, Len(x) - Len(s) + 1, Len(x)) = s

\* re.match(pattern, candidate)
Match(pat, x) ==
    CASE pat.kind = "prefix" -> IsPrefix(pat.lit, x)
      [] pat.kind = "suffix" -> EndsWith(x, pat.lit)
      [] OTHER -> FALSE

\* variants of HeadSkip: strict comparison; force flag not consulted
HeadSkipLt(prev, lm, force) ==
    lm.present /\ Truthy(prev) /\ lm.t < prev.t /\ ~force
HeadSkipNoForce(prev, lm, force) ==
    lm.present /\ Truthy(prev) /\ lm.t <= prev.t
\* the pre-flight decision of url_download
HeadSkip(prev, lm, force) ==
    lm.present /\ Truthy(prev) /\ lm.t <= prev.t /\ ~force

\* variant of GetSkip: a 304 answer is not recognised
GetSkipNever(st, force) == FALSE
\* the post-transfer decision of url_download
GetSkip(st, force) == st = NOT_MODIFIED /\ ~force

\* variant of ResponseOk: client errors pass as success
ResponseOkLoose(st) == st < 500
\* response.ok
ResponseOk(st) == st < OK_LIMIT

\* file_name.endswith('tar.gz') or file_name.endswith('zip')
IsArchiveName(n) ==
    EndsWith(n, <<"t", "a", "r", ".", "g", "z">>) \/ EndsWith(n, <<"z", "i", "p">>)

\* shutil.unpack_archive picks the format from a registered extension
KnownUnpackFormat(n) ==
    \E e \in { <<".", "z", "i", "p">>, <<".", "t", "a", "r", ".", "g", "z">>,
               <<".", "t", "g", "z">>, <<".", "t", "a", "r">> } : EndsWith(n, e)

\* variant of GitSkip: no break after the first commit
GitSkipAll(cs, prev, force) ==
    \E i \in 1..Len(cs) : cs[i] < prev.t /\ ~force
\* for c in repo.iter_commits(): if c.committed_date < previous_update ...; break
GitSkip(cs, prev, force) ==
    Len(cs) > 0 /\ cs[1] < prev.t /\ ~force

\* variant of NamedTemporaryFileExit: the file is left behind
NamedTemporaryFileLeak(f) == f
\* leaving the `with tempfile.NamedTemporaryFile()` block deletes the file
NamedTemporaryFileExit(f) == "absent"

\* ------------------------------------------------------- filter_downloads
\* A directory tree is a set of <<relative path, content>> pairs; directories
\* are the proper prefixes of its file paths.  Content is "new" when the
\* call in progress wrote it and "old" when an earlier call did.
PathsOf(tree) == { e[1] : e \in tree }

RECURSIVE Joined(_)
Joined(p) == IF p = <<>> THEN <<>> ELSE <<Sep, Head(p)>> \o Joined(Tail(p))

\* os.path.join(update_directory, path_in_dir, filename), absolute root
FilePathStr(root, p) == root \o Joined(p)
\* f'{os.path.join(update_directory, path_in_dir, subdir)}/'
DirPathStr(root, d) == root \o Joined(d) \o <<Sep>>

Under(d, p) == Len(p) > Len(d) /\ SubSeq(p, 1, Len(d)) = d

\* get_sha256_for_file(filepath): a function of the file's bytes
Sha256File(tree, p) == { <<<<>>, e[2]>> : e \in { x \in tree : x[1] = p } }
\* get_sha256_for_file(make_archive(subdir, 'tar', root_dir=dirpath))
Sha256Tar(tree, d) ==
    { <<SubSeq(e[1], Len(d) + 1, Len(e[1])), e[2]>> : e \in { x \in tree : Under(d, x[1]) } }

FilesIn(tree, dir) == { p \in PathsOf(tree) : Len(p) = Len(dir) + 1 /\ Under(dir, p) }
SubdirsIn(tree, dir) ==
    { p[Len(dir) + 1] : p \in { q \in PathsOf(tree) : Len(q) > Len(dir) + 1 /\ Under(dir, q) } }

\* the `for filename in files` loop of one os.walk step
FileEntries(tree, root, dir, pat) ==
    { <<FilePathStr(root, p), Sha256File(tree, p)>> :
        p \in { q \in FilesIn(tree, dir) :
                  Match(pat, FilePathStr(root, q)) \/ Match(pat, <<q[Len(q)]>>) } }

\* the `for subdir in subdirs` loop of one os.walk step
DirEntries(tree, root, dir, pat) ==
    { <<DirPathStr(root, Append(dir, s)), Sha256Tar(tree, Append(dir, s))>> :
        s \in { x \in SubdirsIn(tree, dir) : Match(pat, DirPathStr(root, Append(dir, x))) } }

\* variant of Walk: a matching directory is not descended into
RECURSIVE WalkPruned(_, _, _, _)
WalkPruned(tree, root, dir, pat) ==
    FileEntries(tree, root, dir, pat) \cup DirEntries(tree, root, dir, pat)
      \cup UNION { WalkPruned(tree, root, Append(dir, s), pat) :
                     s \in { x \in SubdirsIn(tree, dir) :
                               ~Match(pat, DirPathStr(root, Append(dir, x))) } }

\* os.walk(update_directory): every directory is visited, top down
RECURSIVE Walk(_, _, _, _)
Walk(tree, root, dir, pat) ==
    FileEntries(tree, root, dir, pat) \cup DirEntries(tree, root, dir, pat)
      \cup UNION { Walk(tree, root, Append(dir, s), pat) : s \in SubdirsIn(tree, dir) }

filter_downloads(tree, root, pat, default) ==
    Walk(tree, root, <<>>, IF pat.kind = "None" THEN default ELSE pat)

\* ------------------------------------------------------------------- state
NoHeader == [present |-> FALSE, t |-> 0]
Snapshot == [out_exists |-> out_exists, downloads |-> downloads, work |-> work]

Init ==
    /\ FORCE_UPDATE \in BOOLEAN
    /\ https_proxy = Unset
    /\ pc = "idle" /\ calls = 0 /\ fn = "none"
    /\ previous_update = NoneVal /\ proxy = NoProxy
    /\ pattern = NoPattern /\ default_pattern = MatchAll
    /\ key = NoKey /\ file_name = <<>>
    /\ last_modified = NoHeader /\ status = 0 /\ getIssued = FALSE
    /\ commits = <<>> /\ unpackCalled = FALSE /\ filtered = FALSE
    /\ outcome = "none" /\ result = {}
    /\ out_exists \in BOOLEAN /\ downloads = {} /\ work = {}
    /\ tmpfile = "absent"
    /\ fs0 = [out_exists |-> out_exists, downloads |-> {}, work |-> {}]

\* ------------------------------------------------------------ url_download
\* lines 59-88: read the descriptor, set the proxy, convert previous_update
UrlEnter ==
    /\ pc = "idle" /\ calls < MaxCalls
    /\ \E prev \in PreviousUpdates, px \in Proxies :
         /\ previous_update' = IsoToEpoch(prev)
         /\ proxy' = px
         /\ https_proxy' = IF px # NoProxy THEN px ELSE https_proxy
    /\ fn' = "url" /\ calls' = calls + 1 /\ pc' = "url_head"
    /\ pattern' = NoPattern /\ file_name' = <<>>
    /\ default_pattern' = MatchAll /\ key' = NoKey
    /\ last_modified' = NoHeader /\ status' = 0 /\ getIssued' = FALSE
    /\ commits' = <<>> /\ unpackCalled' = FALSE /\ filtered' = FALSE
    /\ outcome' = "running" /\ result' = {}
    /\ fs0' = Snapshot
    /\ UNCHANGED <<env, disk, tmpfile>>

\* lines 143-149: any other exception is logged and the process exits
UrlAbort ==
    /\ outcome' = "exit" /\ pc' = "exited"

\* lines 91-100: the metadata probe
UrlHead ==
    /\ pc = "url_head"
    /\ \/ /\ UrlAbort
          /\ UNCHANGED last_modified
       \/ \E hdr \in {NoHeader} \cup [present : {TRUE}, t : Times], zone \in TZOffsets :
            /\ last_modified' = IF hdr.present
                                THEN [present |-> TRUE, t |-> Mktime(hdr.t, zone)]
                                ELSE NoHeader
            /\ IF HeadSkip(previous_update, last_modified', FORCE_UPDATE)
               THEN outcome' = "SkipSource" /\ pc' = "done"
               ELSE outcome' = outcome /\ pc' = "url_get"
    /\ UNCHANGED <<env, disk, tmpfile, fs0, https_proxy, calls, fn, previous_update,
                   proxy, pattern, default_pattern, key, file_name, status,
                   getIssued, commits, unpackCalled, filtered, result>>

\* lines 102-115 and 136-138: the real transfer and the status dispatch
UrlGet ==
    /\ pc = "url_get"
    /\ \/ /\ UrlAbort
          /\ UNCHANGED <<status, getIssued, result>>
       \/ \E st \in Statuses :
            /\ status' = st /\ getIssued' = TRUE
            /\ IF GetSkip(st, FORCE_UPDATE)
               THEN outcome' = "SkipSource" /\ pc' = "done"
               ELSE IF ResponseOk(st)
               THEN outcome' = outcome /\ pc' = "url_store"
               ELSE outcome' = "return" /\ pc' = "done"
            /\ result' = {}
    /\ UNCHANGED <<env, disk, tmpfile, fs0, https_proxy, calls, fn, previous_update,
                   proxy, pattern, default_pattern, key, file_name, last_modified,
                   commits, unpackCalled, filtered>>

\* lines 116-129 and 134-135: store the body, clear the proxy, plain file
UrlStore ==
    /\ pc = "url_store"
    /\ out_exists' = TRUE
    /\ \E n \in FileNames : file_name' = n
    /\ downloads' = { e \in downloads : e[1] # file_name' } \cup {<<file_name', "new">>}
    /\ https_proxy' = IF proxy # NoProxy THEN Unset ELSE https_proxy
    /\ IF IsArchiveName(file_name')
       THEN pc' = "url_unpack" /\ UNCHANGED <<outcome, result>>
       ELSE /\ pc' = "done" /\ outcome' = "return"
            /\ result' = { << <<"out", Sep>> \o file_name', {<<<<>>, "new">>} >> }
    /\ UNCHANGED <<env, work, tmpfile, fs0, calls, fn, previous_update, proxy,
                   pattern, default_pattern, key, last_modified, status,
                   getIssued, commits, unpackCalled, filtered>>

\* lines 130-133: unpack into output_dir/name and select
UrlUnpack ==
    /\ pc = "url_unpack"
    /\ unpackCalled' = TRUE
    /\ \/ /\ UrlAbort
          /\ UNCHANGED <<work, result, filtered, pattern>>
       \/ /\ KnownUnpackFormat(file_name)
          /\ \E t \in Trees :
               work' = { e \in work : e[1] \notin t } \cup { <<p, "new">> : p \in t }
          /\ \E pat \in Patterns : pattern' = pat
          /\ result' = filter_downloads(work', WorkDir, pattern', MatchAll)
          /\ filtered' = TRUE
          /\ outcome' = "return" /\ pc' = "done"
    /\ UNCHANGED <<env, out_exists, downloads, tmpfile, fs0, https_proxy, calls, fn,
                   previous_update, proxy, default_pattern, key, file_name,
                   last_modified, status, getIssued, commits>>

\* ---------------------------------------------------------- git_clone_repo
\* lines 154-187: read the descriptor, set the proxy, remove a prior clone
GitEnter ==
    /\ pc = "idle" /\ calls < MaxCalls
    /\ \E prev \in PreviousUpdates, px \in Proxies :
         /\ previous_update' = prev
         /\ proxy' = px
         /\ https_proxy' = IF px # NoProxy THEN px ELSE https_proxy
    /\ pattern' = NoPattern /\ default_pattern' = MatchAll /\ key' = NoKey
    /\ fs0' = Snapshot
    /\ work' = {}
    /\ fn' = "git" /\ calls' = calls + 1 /\ pc' = "git_tmp"
    /\ file_name' = <<>>
    /\ last_modified' = NoHeader /\ status' = 0 /\ getIssued' = FALSE
    /\ commits' = <<>> /\ unpackCalled' = FALSE /\ filtered' = FALSE
    /\ outcome' = "running" /\ result' = {}
    /\ UNCHANGED <<env, out_exists, downloads, tmpfile>>

\* lines 189-198: create the temporary file and write the key into it
GitTempFile ==
    /\ pc = "git_tmp"
    /\ \E k \in Keys : key' = k
    /\ tmpfile' = IF key' # NoKey THEN "key" ELSE "empty"
    /\ pc' = "git_clone"
    /\ UNCHANGED <<env, disk, fs0, https_proxy, calls, fn, previous_update, proxy,
                   pattern, default_pattern, file_name, last_modified, status,
                   getIssued, commits, unpackCalled, filtered, outcome, result>>

\* line 200: Repo.clone_from; a failure propagates out of the with block
GitClone ==
    /\ pc = "git_clone"
    /\ \/ /\ outcome' = "raise" /\ pc' = "done"
          /\ tmpfile' = NamedTemporaryFileExit(tmpfile)
          /\ UNCHANGED disk
       \/ /\ \E t \in Trees : work' = { <<p, "new">> : p \in t }
          /\ out_exists' = TRUE
          /\ pc' = "git_check"
          /\ UNCHANGED <<downloads, tmpfile, outcome>>
    /\ UNCHANGED <<env, fs0, https_proxy, calls, fn, previous_update, proxy,
                   pattern, default_pattern, key, file_name, last_modified, status,
                   getIssued, commits, unpackCalled, filtered, result>>

\* lines 202-209: read the history, compare the newest commit, then leave
\* the with block
GitCheck ==
    /\ pc = "git_check"
    /\ IF Truthy(previous_update)
       THEN /\ previous_update' = IsoToEpoch(previous_update)
            /\ \E cs \in CommitLists : commits' = cs
            /\ IF GitSkip(commits', previous_update', FORCE_UPDATE)
               THEN outcome' = "SkipSource" /\ pc' = "done"
               ELSE outcome' = outcome /\ pc' = "git_finish"
       ELSE UNCHANGED <<previous_update, commits, outcome>> /\ pc' = "git_finish"
    /\ tmpfile' = NamedTemporaryFileExit(tmpfile)
    /\ UNCHANGED <<env, disk, fs0, https_proxy, calls, fn, proxy, pattern,
                   default_pattern, key, file_name, last_modified, status,
                   getIssued, unpackCalled, filtered, result>>

\* lines 211-213: clear the proxy; repo and previous_update are not read
\* after the with block
GitFinish ==
    /\ pc = "git_finish"
    /\ https_proxy' = IF proxy # NoProxy THEN Unset ELSE https_proxy
    /\ commits' = <<>> /\ previous_update' = NoneVal
    /\ pc' = "git_filter"
    /\ UNCHANGED <<env, disk, tmpfile, fs0, calls, fn, proxy, pattern,
                   default_pattern, key, file_name, last_modified, status,
                   getIssued, unpackCalled, filtered, outcome, result>>

\* line 215: select from the clone directory
GitFilter ==
    /\ pc = "git_filter"
    /\ \E pat \in Patterns, dp \in Regexes :
         /\ (pat # NoPattern => dp = MatchAll)
         /\ pattern' = pat /\ default_pattern' = dp
    /\ result' = filter_downloads(work, WorkDir, pattern', default_pattern')
    /\ filtered' = TRUE
    /\ outcome' = "return" /\ pc' = "done"
    /\ UNCHANGED <<env, disk, tmpfile, fs0, https_proxy, calls, fn,
                   previous_update, proxy, key, file_name, last_modified, status,
                   getIssued, commits, unpackCalled>>

\* Control is back in the caller: the frame of the finished call (its locals
\* and its return value or exception) is gone; the process state and the
\* disk remain, and what the call wrote is from now on prior content.
Return ==
    /\ pc = "done"
    /\ pc' = "idle" /\ fn' = "none"
    /\ previous_update' = NoneVal /\ proxy' = NoProxy
    /\ pattern' = NoPattern /\ default_pattern' = MatchAll
    /\ key' = NoKey /\ file_name' = <<>>
    /\ last_modified' = NoHeader /\ status' = 0 /\ getIssued' = FALSE
    /\ commits' = <<>> /\ unpackCalled' = FALSE /\ filtered' = FALSE
    /\ outcome' = "none" /\ result' = {}
    /\ downloads' = { <<e[1], "old">> : e \in downloads }
    /\ work' = { <<e[1], "old">> : e \in work }
    /\ fs0' = [out_exists |-> out_exists, downloads |-> downloads', work |-> work']
    /\ UNCHANGED <<env, out_exists, tmpfile, https_proxy, calls>>

Next ==
    \/ UrlEnter \/ UrlHead \/ UrlGet \/ UrlStore \/ UrlUnpack
    \/ GitEnter \/ GitTempFile \/ GitClone \/ GitCheck \/ GitFinish \/ GitFilter
    \/ Return

Spec == Init /\ [][Next]_vars

\* ------------------------------------------------------------- properties
ProbeUnchanged ==
    Truthy(previous_update) /\ last_modified.present
      /\ last_modified.t <= previous_update.t

EffectivePattern == IF pattern.kind = "None" THEN default_pattern ELSE pattern

DirsOf(tree) ==
    { SubSeq(p, 1, k) : <<p, k>> \in
        { x \in PathsOf(tree) \X (1..3) : x[2] < Len(x[1]) } }

Listed(str) == \E e \in result : e[1] = str

C2_ForceNeverSkips == FORCE_UPDATE => outcome # "SkipSource"

C2_Witness ==
    /\ FORCE_UPDATE /\ fn = "url" /\ ProbeUnchanged
    /\ getIssued /\ status = NOT_MODIFIED
    /\ pc = "done" /\ outcome = "return"

\* C3: after a successful clone with a prior Synchronization Point P,
\* git_clone_repo raises SkipSource iff the newest commit's timestamp is
\* strictly below P and force is off; otherwise it runs the selector.  The
\* older commits play no part.
C3_GitFreshness ==
    (fn = "git" /\ previous_update.type # "None"
       /\ (pc = "git_finish" \/ (pc = "done" /\ outcome = "SkipSource")))
      => (outcome = "SkipSource"
            <=> (commits # <<>> /\ commits[1] < previous_update.t /\ ~FORCE_UPDATE))

C3_Witness ==
    /\ fn = "git" /\ pc = "git_finish" /\ ~FORCE_UPDATE
    /\ Truthy(previous_update)
    /\ Len(commits) >= 2
    /\ commits[1] = previous_update.t /\ commits[2] < previous_update.t
    /\ outcome = "running"

\* C4 (as stated): a directory whose path matches the pattern yields exactly
\* one entry, and no file beneath it is listed individually.
C4_DirectoryWins ==
    (pc = "done" /\ filtered) =>
      \A d \in DirsOf(work) :
        Match(EffectivePattern, DirPathStr(WorkDir, d)) =>
          /\ Cardinality({ e \in result : e[1] = DirPathStr(WorkDir, d) }) = 1
          /\ \A p \in PathsOf(work) :
               Under(d, p) => ~Listed(FilePathStr(WorkDir, p))

\* C4 (amended): a directory whose path matches the pattern yields exactly
\* one entry for the archived directory; the files beneath it are still
\* walked, and each is listed individually exactly when its own full path
\* or bare file name matches the pattern.
C4_DirectoryAndFiles ==
    (pc = "done" /\ filtered) =>
      \A d \in DirsOf(work) :
        Match(EffectivePattern, DirPathStr(WorkDir, d)) =>
          /\ Cardinality({ e \in result : e[1] = DirPathStr(WorkDir, d) }) = 1
          /\ \A p \in PathsOf(work) :
               Under(d, p) =>
                 (Listed(FilePathStr(WorkDir, p))
                    <=> \/ Match(EffectivePattern, FilePathStr(WorkDir, p))
                        \/ Match(EffectivePattern, <<p[Len(p)]>>))

C4_Witness ==
    /\ pc = "done" /\ filtered /\ pattern.kind = "prefix" /\ pattern.lit # <<>>
    /\ Listed(DirPathStr(WorkDir, <<"sub">>))
    /\ Listed(FilePathStr(WorkDir, <<"sub", "c">>))
    /\ ~Listed(FilePathStr(WorkDir, <<"b">>))
    /\ <<"b">> \in PathsOf(work)

C6_SoftFailure ==
    (fn = "url" /\ getIssued /\ status >= OK_LIMIT)
      => /\ pc = "done" /\ outcome = "return" /\ result = {}
         /\ ~unpackCalled /\ ~filtered
         /\ Snapshot = fs0

C6_Witness ==
    /\ fn = "url" /\ getIssued /\ status = 404
    /\ pc = "done" /\ outcome = "return" /\ result = {}
    /\ fs0.work # {} /\ Snapshot = fs0

HasArchiveExtension(n) ==
    EndsWith(n, <<".", "z", "i", "p">>) \/ EndsWith(n, <<".", "t", "a", "r", ".", "g", "z">>)

\* C7: after a successful transfer, url_download expands the download iff
\* its name has the extension .zip or .tar.gz; any other name is returned as
\* the sole entry, unexpanded and unfiltered.
C7_ExpandIffArchiveExtension ==
    (fn = "url" /\ pc \in {"done", "exited"} /\ <<file_name, "new">> \in downloads)
      => /\ unpackCalled <=> HasArchiveExtension(file_name)
         /\ ~HasArchiveExtension(file_name)
              => /\ outcome = "return" /\ ~filtered
                 /\ result = { << <<"out", Sep>> \o file_name, {<<<<>>, "new">>} >> }

\* C8: whenever a call made with a proxy returns a list, https_proxy is
\* unset at the moment of return.
C8_ProxyClearedOnReturn ==
    (pc = "done" /\ outcome = "return" /\ proxy # NoProxy) => https_proxy = Unset

\* C9: the temporary key file of git_clone_repo exists only inside the
\* with block; on every exit path it is gone when control returns.
C9_KeyFileGone ==
    pc \notin {"git_clone", "git_check"} => tmpfile = "absent"

C9_Witness ==
    /\ fn = "git" /\ key # NoKey /\ pc = "done" /\ outcome = "raise"
    /\ tmpfile = "absent"

\* C10: when a call returns Fetched Entries, the clone or extraction
\* directory holds only content written by that call.
C10_WorkDirFresh ==
    (pc = "done" /\ outcome = "return" /\ filtered)
      => \A e \in work : e[2] = "new"

====
